---------------------------- MODULE Spec2Model ----------------------------
(***************************************************************************)
(* RpaKit: the depot pipeline of rpakit.py (class RkMain, loop rk_control) *)
(* and of its predecessor rpa_kit.py (class RKmain, loop cfg_control).     *)
(*                                                                         *)
(* Conventions of the model                                                *)
(*  - A header is a string over ASCII.  The character "#" stands for the   *)
(*    byte 0x9c, which no UTF-8 text contains; bytes.decode() fails        *)
(*    exactly on the headers that contain it.                              *)
(*  - A Python int is a sequence of hexadecimal digits (0..15), most       *)
(*    significant first, without leading zeros (<<>> is 0): the keys of    *)
(*    the format exceed the integers of the model checker.                 *)
(*  - A dict with string keys is a record whose absent keys hold Absent    *)
(*    (strings), NoWin (windows) or NoNum (numbers).                       *)
(*  - A name the object does not have (self.rpaformats for _rpaformats,    *)
(*    self._reg for reg, ...), a keyword a function does not take and      *)
(*    `raise "text"` raise AttributeError and TypeError, as Python does;   *)
(*    an exception no handler catches ends the run.                        *)
(*  - The text that inf()/print() put out is not modelled.                 *)
(***************************************************************************)
EXTENDS Integers, Sequences, FiniteSets, TLC

(* Bound of the model: the number of candidate files in the input directory *)
MaxDepots == 2

Absent == "-"

Min(a, b) == IF a < b THEN a ELSE b

---------------------------------------------------------------------------
(* Strings                                                                 *)

(* key in magic *)
Contains(tok, s) ==
    \E i \in 1..(Len(s) - Len(tok) + 1) : SubSeq(s, i, i + Len(tok) - 1) = tok

StartsWith(s, p) == Len(s) >= Len(p) /\ SubSeq(s, 1, Len(p)) = p

(* s[lo:hi]; hi = -1 is an open end (None) *)
PySlice(s, lo, hi) ==
    SubSeq(s, lo + 1, IF hi < 0 THEN Len(s) ELSE Min(hi, Len(s)))

(* s[::-1] *)
RECURSIVE PyReverse(_)
PyReverse(s) ==
    IF Len(s) = 0 THEN s ELSE PyReverse(SubSeq(s, 2, Len(s))) \o SubSeq(s, 1, 1)

IsSpace(c) == c \in {" ", "\n", "\t", "\r"}

RECURSIVE LStrip(_)
LStrip(s) ==
    IF Len(s) > 0 /\ IsSpace(SubSeq(s, 1, 1)) THEN LStrip(SubSeq(s, 2, Len(s))) ELSE s

RECURSIVE RStrip(_)
RStrip(s) ==
    IF Len(s) > 0 /\ IsSpace(SubSeq(s, Len(s), Len(s)))
    THEN RStrip(SubSeq(s, 1, Len(s) - 1)) ELSE s

(* bytes.decode(): fails on a byte that is not UTF-8 *)
Decodable(s) == ~Contains("#", s)

---------------------------------------------------------------------------
(* Integers as digit sequences                                             *)

LowerDigits == "0123456789abcdef"
UpperDigits == "0123456789ABCDEF"

DigitVal(c) ==
    IF \E i \in 1..Len(LowerDigits) : SubSeq(LowerDigits, i, i) = c
    THEN (CHOOSE i \in 1..Len(LowerDigits) : SubSeq(LowerDigits, i, i) = c) - 1
    ELSE IF \E i \in 1..Len(UpperDigits) : SubSeq(UpperDigits, i, i) = c
    THEN (CHOOSE i \in 1..Len(UpperDigits) : SubSeq(UpperDigits, i, i) = c) - 1
    ELSE -1

RECURSIVE Norm(_)
Norm(d) == IF Len(d) > 0 /\ Head(d) = 0 THEN Norm(Tail(d)) ELSE d

RECURSIVE PadTo(_, _)
PadTo(d, n) == IF Len(d) >= n THEN d ELSE PadTo(<<0>> \o d, n)

XorBit(a, b) == (a + b) % 2

XorDigit(a, b) ==
    XorBit(a % 2, b % 2)
    + 2 * XorBit((a \div 2) % 2, (b \div 2) % 2)
    + 4 * XorBit((a \div 4) % 2, (b \div 4) % 2)
    + 8 * XorBit((a \div 8) % 2, (b \div 8) % 2)

(* a ^ b *)
NumXor(a, b) ==
    LET n == IF Len(a) > Len(b) THEN Len(a) ELSE Len(b)
        pa == PadTo(a, n)
        pb == PadTo(b, n)
    IN  Norm([i \in 1..n |-> XorDigit(pa[i], pb[i])])

RECURSIVE NumOfNat(_)
NumOfNat(n) == IF n = 0 THEN <<>> ELSE NumOfNat(n \div 16) \o <<n % 16>>

(* numbers below 16^6 are converted back; larger ones only compared *)
IsSmall(d) == Len(d) <= 6

RECURSIVE NatOf(_)
NatOf(d) == IF Len(d) = 0 THEN 0 ELSE 16 * NatOf(SubSeq(d, 1, Len(d) - 1)) + d[Len(d)]

(* int(text, 16) on a slice of the header: [ok, val]; ok = FALSE is ValueError *)
PyIntHex(text) ==
    LET t == RStrip(LStrip(text))
    IN  IF Len(t) = 0 \/ \E i \in 1..Len(t) : DigitVal(SubSeq(t, i, i)) < 0
        THEN [ok |-> FALSE, val |-> <<>>]
        ELSE [ok |-> TRUE, val |-> Norm([i \in 1..Len(t) |-> DigitVal(SubSeq(t, i, i))])]

---------------------------------------------------------------------------
(* Dict values                                                             *)

NoWin == [kind |-> "absent", lo |-> 0, hi |-> 0]
(* slice(lo, hi); hi = -1 is None *)
Win(lo, hi) == [kind |-> "slice", lo |-> lo, hi |-> hi]
(* 'offset': 0 *)
WinZero == [kind |-> "int", lo |-> 0, hi |-> 0]
(* 'key': None *)
WinNone == [kind |-> "none", lo |-> 0, hi |-> 0]

NoNum == [has |-> FALSE, val |-> <<>>]
SomeNum(d) == [has |-> TRUE, val |-> d]

(* self.version = {} *)
EmptyVersion ==
    [rpaid |-> Absent, alias |-> Absent, desc |-> Absent,
     offset |-> NoWin, key |-> NoWin, key_org |-> NoNum, key_rv |-> FALSE,
     key2 |-> NoNum]

Fmt(rpaid, alias, desc) ==
    [EmptyVersion EXCEPT !.rpaid = rpaid, !.alias = alias, !.desc = desc]

(* self.version.update(val): the keys val has replace those of the dict *)
DictUpdate(v, val) ==
    [rpaid   |-> IF val.rpaid # Absent THEN val.rpaid ELSE v.rpaid,
     alias   |-> IF val.alias # Absent THEN val.alias ELSE v.alias,
     desc    |-> IF val.desc # Absent THEN val.desc ELSE v.desc,
     offset  |-> IF val.offset # NoWin THEN val.offset ELSE v.offset,
     key     |-> IF val.key # NoWin THEN val.key ELSE v.key,
     key_org |-> IF val.key_org.has THEN val.key_org ELSE v.key_org,
     key_rv  |-> val.key_rv \/ v.key_rv,
     key2    |-> IF val.key2.has THEN val.key2 ELSE v.key2]

(* s in self.version.values(): only the string values can equal a string *)
InValues(s, v) == s \in ({v.rpaid, v.alias, v.desc} \ {Absent})

---------------------------------------------------------------------------
(* The tables of rpakit.py                                                 *)

(* the keys of _rpaformats in the order of the dict *)
Rk_tokens ==
    <<"x", "RPA-2.0 ", "RPA-3.0 ", "RPA-3.0rk", "RPI-3.0", "RPA-3.1",
      "RPA-3.2", "RPA-4.0", "ALT-1.0", "ZiX-12A", "ZiX-12B">>

Rk_rpaformats ==
    [tok \in {Rk_tokens[i] : i \in 1..Len(Rk_tokens)} |->
        CASE tok = "x"         -> Fmt("rpa1", Absent, "Legacy type RPA-1.0")
          [] tok = "RPA-2.0 "  -> Fmt("rpa2", Absent, "Legacy type RPA-2.0")
          [] tok = "RPA-3.0 "  -> Fmt("rpa3", Absent, "Standard type RPA-3.0")
          [] tok = "RPA-3.0rk" -> Fmt("rpa3rk", "RPA 3 rk", "Custom type of RPA-3.0 with reversed key")
          [] tok = "RPI-3.0"   -> Fmt("rpa32", "rpi3", "Custom type RPI-3.0")
          [] tok = "RPA-3.1"   -> Fmt("rpa3", "rpa31", "Custom type RPA-3.1, a alias of RPA-3.0")
          [] tok = "RPA-3.2"   -> Fmt("rpa32", Absent, "Custom type RPA-3.2")
          [] tok = "RPA-4.0"   -> Fmt("rpa3", "rpa4", "Custom type RPA-4.0, a alias of RPA-3.0")
          [] tok = "ALT-1.0"   -> Fmt("alt1", "ALT 1", "Custom type ALT-1.0")
          [] tok = "ZiX-12A"   -> Fmt("zix12a", "ZIX 12a", "Custom type ZiX-12A")
          [] tok = "ZiX-12B"   -> Fmt("zix12b", "ZIX 12b", "Custom type ZiX-12B")]

(* 'key_org': 1111638594 *)
key_org == 1111638594

(* 'key2': 0xDABE8DF0 *)
key2 == <<13, 10, 11, 14, 8, 13, 15, 0>>

Spec_row(offset, key) == [EmptyVersion EXCEPT !.offset = offset, !.key = key]

(* the keys of _rpaspecs in the order of the dict *)
Rk_spec_ids == <<"rpa1", "rpa2", "rpa3", "rpa32", "alt1">>

Rk_rpaspecs ==
    [id \in {Rk_spec_ids[i] : i \in 1..Len(Rk_spec_ids)} |->
        CASE id = "rpa1"  -> Spec_row(WinZero, WinNone)
          [] id = "rpa2"  -> Spec_row(Win(8, -1), WinNone)
          [] id = "rpa3"  -> [Spec_row(Win(8, 24), Win(25, 33)) EXCEPT
                                 !.key_org = SomeNum(NumOfNat(key_org)),
                                 !.key_rv = TRUE]
          [] id = "rpa32" -> Spec_row(Win(8, 24), Win(27, 35))
          [] id = "alt1"  -> [Spec_row(Win(17, 33), Win(8, 16)) EXCEPT
                                 !.key2 = SomeNum(key2)]]

---------------------------------------------------------------------------
(* The tables of rpa_kit.py                                                *)

Kit_tokens ==
    <<"RPA-2.0 ", "RPA-3.0 ", "RPI-3.0", "RPA-3.1", "RPA-3.2", "RPA-4.0",
      "ALT-1.0", "ZiX-12A", "ZiX-12B">>

Kit_rpaformats ==
    [tok \in {Kit_tokens[i] : i \in 1..Len(Kit_tokens)} |->
        CASE tok = "RPA-2.0 " -> Fmt("rpa2", Absent, Absent)
          [] tok = "RPA-3.0 " -> Fmt("rpa3", Absent, Absent)
          [] tok = "RPI-3.0"  -> Fmt("rpa32", "rpi3", Absent)
          [] tok = "RPA-3.1"  -> Fmt("rpa3", "rpa31", Absent)
          [] tok = "RPA-3.2"  -> Fmt("rpa32", Absent, Absent)
          [] tok = "RPA-4.0"  -> Fmt("rpa3", "rpa4", Absent)
          [] tok = "ALT-1.0"  -> Fmt("alt1", Absent, Absent)
          [] tok = "ZiX-12A"  -> Fmt("zix12a", Absent, Absent)
          [] tok = "ZiX-12B"  -> Fmt("zix12b", Absent, Absent)]

Kit_spec_ids == <<"rpa1", "rpa2", "rpa3", "rpa32", "alt1">>

Kit_rpaspecs ==
    [id \in {Kit_spec_ids[i] : i \in 1..Len(Kit_spec_ids)} |->
        CASE id = "rpa1"  -> Spec_row(WinZero, WinNone)
          [] id = "rpa2"  -> Spec_row(Win(8, -1), WinNone)
          [] id = "rpa3"  -> Spec_row(Win(8, 24), Win(25, 33))
          [] id = "rpa32" -> Spec_row(Win(8, 24), Win(27, 35))
          [] id = "alt1"  -> [Spec_row(Win(17, 33), Win(8, 16)) EXCEPT
                                 !.key2 = SomeNum(key2)]]

---------------------------------------------------------------------------
(* Registers: a dict is the sequence of its items in insertion order.  A    *)
(* key is a str or a bytes object; a value is a list of tuples whose first  *)
(* two members are ints and whose third member, if any, is a bytes prefix.  *)

StrKey(text) == [kind |-> "str", text |-> text, utf8 |-> TRUE]
BytesKey(text, utf8) == [kind |-> "bytes", text |-> text, utf8 |-> utf8]
Item(key, segs) == [key |-> key, segs |-> segs]

(* the index an archiver writes for key k: offsets and lengths XOR k *)
Scrambled(items, k) ==
    [i \in 1..Len(items) |->
        Item(items[i].key,
             [j \in 1..Len(items[i].segs) |->
                 <<NumXor(items[i].segs[j][1], k), NumXor(items[i].segs[j][2], k)>>
                 \o SubSeq(items[i].segs[j], 3, Len(items[i].segs[j]))])]

StdKey == <<4, 2, 4, 2, 4, 2, 4, 2>>

(* {"a/b.txt": [(0, 5)]} *)
PlainPair == << Item(StrKey("a/b.txt"), << <<NumOfNat(0), NumOfNat(5)>> >>) >>

(* {"a/b.txt": [(64, 5)]}, the index of a legacy .rpi file *)
PlainLegacy == << Item(StrKey("a/b.txt"), << <<NumOfNat(64), NumOfNat(5)>> >>) >>

(* {"a/b.txt": [(64, 5, b"")], "c.bin": [(69, 6, b"AB")]} *)
PlainStd ==
    << Item(StrKey("a/b.txt"), << <<NumOfNat(64), NumOfNat(5), <<>> >> >>),
       Item(StrKey("c.bin"), << <<NumOfNat(69), NumOfNat(6), <<65, 66>> >> >>) >>

(* {"a/b.txt": [(0, 5)], "d.dat": [(8, 4), (16, 4)]}: an index of pairs,
   the second file stored in two parts *)
PlainParts ==
    << Item(StrKey("a/b.txt"), << <<NumOfNat(0), NumOfNat(5)>> >>),
       Item(StrKey("d.dat"), << <<NumOfNat(8), NumOfNat(4)>>,
                                <<NumOfNat(16), NumOfNat(4)>> >>) >>

(* {b"a/b.txt": [(64, 5, b"")], b"c.bin": [(69, 6, b"AB")]}: the keys as an
   archiver under Python 2 pickled them *)
PlainBytes ==
    << Item(BytesKey("a/b.txt", TRUE), << <<NumOfNat(64), NumOfNat(5), <<>> >> >>),
       Item(BytesKey("c.bin", TRUE), << <<NumOfNat(69), NumOfNat(6), <<65, 66>> >> >>) >>

(* {b"a/b.txt": [(64, 5, b"")], b"c\x9c.bin": [(69, 6, b"AB")]}: the second
   key is no UTF-8 text *)
PlainBadKey ==
    << Item(BytesKey("a/b.txt", TRUE), << <<NumOfNat(64), NumOfNat(5), <<>> >> >>),
       Item(BytesKey("c#.bin", FALSE), << <<NumOfNat(69), NumOfNat(6), <<65, 66>> >> >>) >>

(* {"a/b.txt": [(64, 5, b"")], "m.bin": [(0, 4), (4, 4, b"--")],
    "n.bin": [(0, 4, b""), (4, 4)]}: lists that hold pairs and triples *)
PlainMixed ==
    << Item(StrKey("a/b.txt"), << <<NumOfNat(64), NumOfNat(5), <<>> >> >>),
       Item(StrKey("m.bin"), << <<NumOfNat(0), NumOfNat(4)>>,
                                <<NumOfNat(4), NumOfNat(4), <<45, 45>> >> >>),
       Item(StrKey("n.bin"), << <<NumOfNat(0), NumOfNat(4), <<>> >>,
                                <<NumOfNat(4), NumOfNat(4)>> >>) >>

(* {"a/b.txt": [(64, 5)], "e": []}: a file without parts *)
PlainEmpty ==
    << Item(StrKey("a/b.txt"), << <<NumOfNat(64), NumOfNat(5)>> >>),
       Item(StrKey("e"), << >>) >>

(* {"j.bin": [(0, 4, b""), (4, 4, b"--")],
    "k.bin": [(0, 2, b"A"), (8, 2, b"B"), (16, 2, b"C")]}: files stored in
   parts whose triples hold prefixes *)
PlainJoined ==
    << Item(StrKey("j.bin"), << <<NumOfNat(0), NumOfNat(4), <<>> >>,
                                <<NumOfNat(4), NumOfNat(4), <<45, 45>> >> >>),
       Item(StrKey("k.bin"), << <<NumOfNat(0), NumOfNat(2), <<65>> >>,
                                <<NumOfNat(8), NumOfNat(2), <<66>> >>,
                                <<NumOfNat(16), NumOfNat(2), <<67>> >> >>) >>

(* {"a/b.txt": [(64, 5, b"")], "": [(0, 5, b"")], "c.bin": [(69, 6, b"AB")]}:
   the second file has the empty name, which names the output directory *)
PlainNoName ==
    << Item(StrKey("a/b.txt"), << <<NumOfNat(64), NumOfNat(5), <<>> >> >>),
       Item(StrKey(""), << <<NumOfNat(0), NumOfNat(5), <<>> >> >>),
       Item(StrKey("c.bin"), << <<NumOfNat(69), NumOfNat(6), <<65, 66>> >> >>) >>

(* {"z.bin": [(10, 2, b"AB")], "s.bin": [(10, 1, b"AB")], "t.bin": [(92, 10, b"")]}:
   a length that is the length of the prefix, a length below it, and a part
   that ends behind the end of the data *)
PlainEdge ==
    << Item(StrKey("z.bin"), << <<NumOfNat(10), NumOfNat(2), <<65, 66>> >> >>),
       Item(StrKey("s.bin"), << <<NumOfNat(10), NumOfNat(1), <<65, 66>> >> >>),
       Item(StrKey("t.bin"), << <<NumOfNat(92), NumOfNat(10), <<>> >> >>) >>

---------------------------------------------------------------------------
(* The files a run can meet: name, first line, the position of the         *)
(* compressed index (-1: no position of the file holds one) and the index. *)

File(name, line, index_at, index) ==
    [name |-> name, header |-> line, index_at |-> index_at, index |-> index]

Files ==
    { File("x.rpi", "x#q#\n", 0, PlainLegacy),
      File("x.rpa", "#q\n", -1, <<>>),
      File("y.rpi", "x#qqqqqqqqqqqqqqqqqqqqqqqqqqqqqq#\n", 0, PlainLegacy),
      File("a.rpa", "RPA-3.0 0000000000000022 42424242\n", 34, Scrambled(PlainStd, StdKey)),
      File("b.rpa", "RPA-3.0 0000000000000018 000000FF\n", 24, Scrambled(PlainPair, <<15, 15>>)),
      File("c.rpa", "RPA-3.0 0000000000000022 24242424\n", 34, Scrambled(PlainStd, StdKey)),
      File("m.rpa", "RPA-3.0 000000000000002a 42424242 RPA-3.2\n", 42, Scrambled(PlainStd, StdKey)),
      File("h.rpa", "RPA-3.0 00000000000000zz 42424242\n", 34, Scrambled(PlainStd, StdKey)),
      File("s.rpa", "RPA-3.0 \n", -1, <<>>),
      File("k.rpa", "RPA-3.0 0000000000000030 42424242\n", -1, <<>>),
      File("r.rpa", "RPA-2.0 0000000000000019\n", 25, PlainLegacy),
      File("l.rpa", "ALT-1.0 98FCCFB2 0000000000000022\n", 34, Scrambled(PlainStd, StdKey)),
      File("i.rpa", "RPA-3.2 0000000000000024 0 42424242\n", 36, Scrambled(PlainStd, StdKey)),
      File("v.rpa", "RPA-3.0rk 0000000000000023 42424242\n", 35, Scrambled(PlainStd, StdKey)),
      File("z.rpa", "ZiX-12B 0000000000000022 42424242\n", -1, <<>>),
      File("n.rpa", "hello\n", -1, <<>>),
      File("t.rpa", "text x\n", -1, <<>>),
      File("p.rpa", "RPA-2.0 0000000000000019\n", 25, PlainParts),
      File("g.rpa", "RPA-3.0 0000000000000022 42424242\n", 34, Scrambled(PlainBytes, StdKey)),
      File("u.rpa", "RPA-3.0 0000000000000022 42424242\n", 34, Scrambled(PlainBadKey, StdKey)),
      File("w.rpa", "RPA-3.0 0000000000000022 42424242\n", 34, Scrambled(PlainMixed, StdKey)),
      File("e.rpa", "RPA-2.0 0000000000000019\n", 25, PlainEmpty),
      File("j.rpa", "RPA-3.0 0000000000000022 42424242\n", 34, Scrambled(PlainJoined, StdKey)),
      File("o.rpa", "RPA-3.0 0000000000000022 42424242\n", 34, Scrambled(PlainNoName, StdKey)),
      File("f.rpa", "RPA-3.0 0000000000000022 42424242\n", 34, Scrambled(PlainEdge, StdKey)),
      File("q.rpi", "x#q#\n", 0, PlainParts) }

FileNames == {f.name : f \in Files}
FileOf(name) == CHOOSE f \in Files : f.name = name

(* the bytes of a file: position p holds the byte p mod 251 *)
DataSize == 96
Bytes == [i \in 1..DataSize |-> (i - 1) % 251]
FileBytes(name) == Bytes

(* the first lines of the files *)
Headers == {f.header : f \in Files}

(* Path.suffix and Path.with_suffix for the names above *)
Suffix(name) == SubSeq(name, Len(name) - 3, Len(name))
WithSuffix(name, suffix) == SubSeq(name, 1, Len(name) - 4) \o suffix

(* a pathlib.Path / a str naming a file: they never compare equal *)
AsPath(name) == [type |-> "Path", name |-> name]
AsStr(name) == [type |-> "str", name |-> name]
NoDepot == [type |-> "none", name |-> ""]

---------------------------------------------------------------------------
(* State                                                                   *)

VARIABLES
    prog,           (* "rk": rpakit.py, "kit": rpa_kit.py *)
    task,           (* the task given on the command line *)
    pc,             (* the position of the run *)
    dir,            (* the names of the files of the input directory *)
    dep_lst,        (* dep_lst (rk), dep_dq (kit): the queue of depots *)
    count,          (* RkCommon.count / RKCommon.count *)
    depot,          (* self.depot *)
    header,         (* self.header *)
    version,        (* self.version *)
    version_is,     (* the key of the rpaformats row self.version IS (kit), or Absent *)
    rpaformats,     (* the format table as it stands *)
    rpaspecs,       (* the cipher table as it stands *)
    reg,            (* self.reg *)
    dep_initstate,  (* self.dep_initstate: "None", "True", "False" *)
    cipher,         (* offset, key of collect_register *)
    err,            (* the exception that ended the run *)
    cur,            (* history: the name of the depot taken from the queue *)
    log,            (* history: the steps performed, each with its depot *)
    reads,          (* history: the reads made on files *)
    written         (* history: the files written by unpack_depot *)

vars == <<prog, task, pc, dir, dep_lst, count, depot, header, version, version_is,
          rpaformats, rpaspecs, reg, dep_initstate, cipher, err, cur, log,
          reads, written>>

NoHeader == "<None>"
NoErr == [exc |-> "", at |-> ""]
Raised(exc, at) == [exc |-> exc, at |-> at]
NoCipher == [offset |-> <<>>, key |-> NoNum]
Step(ev, name) == [ev |-> ev, dep |-> name]

Rk_tasks == {"extract", "simulate", "listing", "test"}
Kit_tasks == {"exp", "lst", "tst"}

Init ==
    /\ prog \in {"rk", "kit"}
    /\ task \in (IF prog = "rk" THEN Rk_tasks ELSE Kit_tasks)
    /\ pc = "start"
    /\ dir = {}
    /\ dep_lst = <<>>
    /\ count = [dep_found |-> 0, dep_done |-> 0, fle_total |-> 0, fid_found |-> 0]
    /\ depot = NoDepot
    /\ header = IF prog = "rk" THEN NoHeader ELSE ""
    /\ version = EmptyVersion
    /\ version_is = Absent
    /\ rpaformats = IF prog = "rk" THEN Rk_rpaformats ELSE Kit_rpaformats
    /\ rpaspecs = IF prog = "rk" THEN Rk_rpaspecs ELSE Kit_rpaspecs
    /\ reg = <<>>
    /\ dep_initstate = "None"
    /\ cipher = NoCipher
    /\ err = NoErr
    /\ cur = ""
    /\ log = <<>>
    /\ reads = <<>>
    /\ written = <<>>

---------------------------------------------------------------------------
(* Path work                                                               *)

(* the lists os.scandir can deliver: distinct archive files in any order *)
Candidates ==
    {c \in UNION {[1..n -> FileNames] : n \in 0..MaxDepots} :
        \A i, j \in DOMAIN c : i # j => c[i] # c[j]}

Range(s) == {s[i] : i \in DOMAIN s}

(* the input path: a directory, whose archive files are the candidates, or
   one index file .rpi whose data file .rpa lies next to it *)
Inputs ==
    {[kind |-> "dir", cand |-> c, dir |-> Range(c)] : c \in Candidates}
    \cup {[kind |-> "file", cand |-> <<n>>, dir |-> {n, WithSuffix(n, ".rpa")}] :
             n \in {m \in FileNames : Suffix(m) = ".rpi"
                                      /\ WithSuffix(m, ".rpa") \in FileNames}}

(* list.remove(x) / deque.remove(x): the first member equal to x *)
Remove(s, x) ==
    LET i == CHOOSE k \in DOMAIN s : s[k] = x /\ \A m \in 1..(k - 1) : s[m] # x
    IN  SubSeq(s, 1, i - 1) \o SubSeq(s, i + 1, Len(s))

(* a pairing that removes the twin and leaves dep_found as it was *)
RECURSIVE ident_paired_uncounted(_, _, _, _)
ident_paired_uncounted(copy, i, lst, removed) ==
    IF i > Len(copy) THEN [lst |-> lst, removed |-> 0]
    ELSE LET twin == AsStr(WithSuffix(copy[i].name, ".rpa"))
         IN  IF Suffix(copy[i].name) = ".rpi" /\ twin \in Range(lst)
             THEN ident_paired_uncounted(copy, i + 1, Remove(lst, twin), removed)
             ELSE ident_paired_uncounted(copy, i + 1, lst, removed)

(* the loop of ident_paired_depot / ident_paired_rpa over the copy of the
   queue, from its member i on: the queue and the number of removals *)
RECURSIVE ident_paired(_, _, _, _)
ident_paired(copy, i, lst, removed) ==
    IF i > Len(copy) THEN [lst |-> lst, removed |-> removed]
    ELSE LET twin == AsStr(WithSuffix(copy[i].name, ".rpa"))
         IN  IF Suffix(copy[i].name) = ".rpi" /\ twin \in Range(lst)
             THEN ident_paired(copy, i + 1, Remove(lst, twin), removed + 1)
             ELSE ident_paired(copy, i + 1, lst, removed)

(* the exception no handler of rk_control catches ends the run *)
rk_control_uncaught == "crashed"

(* RkPathWork.pathworker: search_rpa / add_depot append a Path for every
   archive file, then ident_paired_depot; for the tasks that unpack,
   make_output joins self.inp_pt, which is None (the input path is kept in
   self._inp_pt), with the output directory: a TypeError, which is no OSError *)
rk_pathworker ==
    /\ pc = "start" /\ prog = "rk"
    /\ \E inp \in Inputs :
        LET c == inp.cand
            lst == [i \in 1..Len(c) |-> AsPath(c[i])]
            p == ident_paired(lst, 1, lst, 0)
        IN  /\ dir' = inp.dir
            /\ dep_lst' = p.lst
            /\ count' = [count EXCEPT !.dep_found = Len(c) - p.removed]
    /\ IF task \in {"extract", "simulate"}
       THEN /\ pc' = rk_control_uncaught
            /\ err' = Raised("TypeError", "make_output")
       ELSE /\ pc' = "loop"
            /\ UNCHANGED err
    /\ UNCHANGED <<prog, task, depot, header, version, version_is, rpaformats,
                   rpaspecs, reg, dep_initstate, cipher, cur, log,
                   reads, written>>

(* RPAPathwork.pathworker: search_rpa puts entry.path, a str, at the left end
   for every archive file (a file given as input is put there as a Path),
   then ident_paired_rpa *)
kit_pathworker ==
    /\ pc = "start" /\ prog = "kit"
    /\ \E inp \in Inputs :
        LET c == inp.cand
            lst == [i \in 1..Len(c) |->
                       IF inp.kind = "dir" THEN AsStr(c[Len(c) + 1 - i])
                       ELSE AsPath(c[Len(c) + 1 - i])]
            p == ident_paired(lst, 1, lst, 0)
        IN  /\ dir' = inp.dir
            /\ dep_lst' = p.lst
            /\ count' = [count EXCEPT !.dep_found = Len(c) - p.removed]
    /\ pc' = "loop"
    /\ UNCHANGED <<prog, task, depot, header, version, version_is, rpaformats,
                   rpaspecs, reg, dep_initstate, cipher, err, cur, log,
                   reads, written>>


---------------------------------------------------------------------------
(* rpakit.py: the loop of rk_control                                       *)

(* RkMain.rk_control: the loop takes the last depot of the list *)
rk_pop ==
    /\ pc = "loop" /\ prog = "rk" /\ dep_lst # <<>>
    /\ depot' = dep_lst[Len(dep_lst)]
    /\ dep_lst' = SubSeq(dep_lst, 1, Len(dep_lst) - 1)
    /\ cur' = dep_lst[Len(dep_lst)].name
    /\ log' = Append(log, Step("pop", dep_lst[Len(dep_lst)].name))
    /\ pc' = "init"
    /\ UNCHANGED <<prog, task, dir, count, header, version, version_is, rpaformats,
                   rpaspecs, reg, dep_initstate, cipher, err, reads, written>>

(* init_depot: get_header, then guess_version, which takes the magic
   (get_header_start changes nothing) and reads self.rpaformats; the class has _rpaformats only, the AttributeError
   is none of the exceptions guess_version, init_depot or rk_control catch *)
rk_guess_version ==
    /\ pc = "init" /\ prog = "rk"
    /\ header' = FileOf(depot.name).header
    /\ reads' = Append(reads, [dep |-> cur, file |-> depot.name, what |-> "header",
                               off |-> <<>>, leg |-> <<>>, plen |-> 0, got |-> <<>>])
    /\ err' = Raised("AttributeError", "guess_version")
    /\ pc' = rk_control_uncaught
    /\ log' = Append(log, Step("error", cur))
    /\ UNCHANGED <<prog, task, dir, dep_lst, count, depot, version, version_is,
                   rpaformats, rpaspecs, reg, dep_initstate, cipher, cur, written>>

(* rk_control: the list is empty, the loop ends *)
rk_exit ==
    /\ pc = "loop" /\ prog = "rk" /\ dep_lst = <<>>
    /\ pc' = "done"
    /\ UNCHANGED <<prog, task, dir, dep_lst, count, depot, header, version, version_is,
                   rpaformats, rpaspecs, reg, dep_initstate, cipher, err, cur,
                   log, reads, written>>

---------------------------------------------------------------------------
(* Cipher and register                                                     *)

(* the slices the cipher tables hold *)
Slices ==
    {w \in {Rk_rpaspecs[id].offset : id \in DOMAIN Rk_rpaspecs}
          \cup {Rk_rpaspecs[id].key : id \in DOMAIN Rk_rpaspecs}
          \cup {Kit_rpaspecs[id].offset : id \in DOMAIN Kit_rpaspecs}
          \cup {Kit_rpaspecs[id].key : id \in DOMAIN Kit_rpaspecs} :
        w.kind = "slice"}

(* int(h[w], 16) and int(h[w][::-1], 16) for every header and slice *)
Parsed == [h \in Headers, w \in Slices |-> PyIntHex(PySlice(h, w.lo, w.hi))]
ParsedReverse ==
    [h \in Headers, w \in Slices |-> PyIntHex(PyReverse(PySlice(h, w.lo, w.hi)))]

(* int(self.header[window], 16): a slice is cut and parsed; an int or None
   as index leaves nothing int() accepts (TypeError) *)
ParseWindow(h, w) ==
    IF w.kind = "slice"
    THEN [ok |-> Parsed[h, w].ok, val |-> Parsed[h, w].val,
          exc |-> IF Parsed[h, w].ok THEN "" ELSE "ValueError"]
    ELSE [ok |-> FALSE, val |-> <<>>, exc |-> "TypeError"]

CipherFail(v, exc) ==
    [ok |-> FALSE, offset |-> <<>>, key |-> NoNum, version |-> v, exc |-> exc]

(* RkDepotWork.get_cipher on self.version v and self.header h: offset and
   key, or the exception of the try block.
   For rpa3 and a key that is not key_org the key is parsed again from the
   reversed window, then self.rpaformats is read for the relabelling: the
   AttributeError leaves the method with self.version unchanged *)
rk_get_cipher(v, h) ==
    IF v.offset = NoWin \/ v.key = NoWin THEN CipherFail(v, "KeyError")
    ELSE
    LET o == IF v.rpaid # "rpa1" THEN ParseWindow(h, v.offset)
             ELSE [ok |-> TRUE, val |-> <<>>, exc |-> ""]
        k == IF v.rpaid # "rpa2" THEN ParseWindow(h, v.key)
             ELSE [ok |-> TRUE, val |-> <<>>, exc |-> ""]
    IN  IF ~o.ok THEN CipherFail(v, o.exc)
        ELSE IF ~k.ok THEN CipherFail(v, k.exc)
        ELSE IF v.rpaid = "rpa3" /\ ~v.key_org.has THEN CipherFail(v, "KeyError")
        ELSE IF v.rpaid = "rpa3" /\ k.val # v.key_org.val
        THEN IF ~v.key_rv THEN CipherFail(v, "KeyError")
             ELSE IF ~ParsedReverse[h, v.key].ok THEN CipherFail(v, "ValueError")
             ELSE CipherFail(v, "AttributeError")
        ELSE [ok |-> TRUE, offset |-> o.val,
              key |-> IF v.rpaid # "rpa2" THEN SomeNum(k.val) ELSE NoNum,
              version |-> v, exc |-> ""]

(* RPAKit.get_cipher: the key is parsed only when the offset is *)
kit_get_cipher(v, h) ==
    IF v.offset = NoWin \/ v.key = NoWin THEN CipherFail(v, "KeyError")
    ELSE IF v.rpaid = "rpa1"
    THEN [ok |-> TRUE, offset |-> <<>>, key |-> NoNum, version |-> v, exc |-> ""]
    ELSE LET o == ParseWindow(h, v.offset)
         IN  IF ~o.ok THEN CipherFail(v, o.exc)
             ELSE IF v.rpaid = "rpa2"
             THEN [ok |-> TRUE, offset |-> o.val, key |-> NoNum, version |-> v, exc |-> ""]
             ELSE LET k == ParseWindow(h, v.key)
                  IN  IF ~k.ok THEN CipherFail(v, k.exc)
                      ELSE [ok |-> TRUE, offset |-> o.val, key |-> SomeNum(k.val),
                            version |-> v, exc |-> ""]

(* of.seek(offset); pickle.loads(zlib.decompress(of.read())): the index of
   the file if the offset is its position, zlib.error anywhere else *)
LoadIndex(name, offset) ==
    LET f == FileOf(name)
    IN  IF f.index_at >= 0 /\ IsSmall(offset) /\ NatOf(offset) = f.index_at
        THEN [ok |-> TRUE, reg |-> f.index]
        ELSE [ok |-> FALSE, reg |-> <<>>]

(* unify_reg from item i on: a list whose first tuple is a pair gets b'' put
   behind every tuple; an empty list raises IndexError and leaves the items
   before it changed *)
RECURSIVE unify_reg(_, _)
unify_reg(r, i) ==
    IF i > Len(r) THEN [ok |-> TRUE, reg |-> r, exc |-> ""]
    ELSE IF Len(r[i].segs) = 0 THEN [ok |-> FALSE, reg |-> r, exc |-> "IndexError"]
    ELSE IF Len(r[i].segs[1]) = 2
         THEN unify_reg([r EXCEPT ![i].segs =
                            [j \in 1..Len(r[i].segs) |-> r[i].segs[j] \o << <<>> >>]],
                        i + 1)
         ELSE unify_reg(r, i + 1)

(* an unscrample_reg that applied the key to the offsets alone *)
unscrample_reg_offsets(r, key, i) ==
    [ok |-> TRUE,
     reg |-> [m \in 1..Len(r) |->
                 Item(r[m].key,
                      [j \in 1..Len(r[m].segs) |->
                          IF Len(r[m].segs[j]) = 3
                          THEN <<NumXor(r[m].segs[j][1], key), r[m].segs[j][2],
                                 r[m].segs[j][3]>>
                          ELSE r[m].segs[j]])],
     exc |-> ""]

(* unscrample_reg from item i on: offset ^ key, leg ^ key in every tuple; a
   tuple that is no triple raises ValueError and leaves its list as it was *)
RECURSIVE unscrample_reg(_, _, _)
unscrample_reg(r, key, i) ==
    IF i > Len(r) THEN [ok |-> TRUE, reg |-> r, exc |-> ""]
    ELSE IF \E j \in 1..Len(r[i].segs) : Len(r[i].segs[j]) # 3
         THEN [ok |-> FALSE, reg |-> r, exc |-> "ValueError"]
         ELSE unscrample_reg(
                  [r EXCEPT ![i].segs =
                      [j \in 1..Len(r[i].segs) |->
                          <<NumXor(r[i].segs[j][1], key), NumXor(r[i].segs[j][2], key),
                            r[i].segs[j][3]>>]],
                  key, i + 1)

(* dict[k] = v on the sequence of items *)
DictPut(r, k, v) ==
    IF \E i \in 1..Len(r) : r[i].key = k
    THEN [i \in 1..Len(r) |-> IF r[i].key = k THEN Item(k, v) ELSE r[i]]
    ELSE Append(r, Item(k, v))

(* _unicify(_pt): a str stays, a bytes object is decoded as UTF-8 *)
kit_unicify(k) == IF k.kind = "str" THEN k ELSE StrKey(k.text)

(* {self._unicify(_pt): _d for _pt, _d in self.reg.items()} from item i on *)
RECURSIVE kit_keys(_, _, _)
kit_keys(r, i, acc) ==
    IF i > Len(r) THEN acc
    ELSE kit_keys(r, i + 1, DictPut(acc, kit_unicify(r[i].key), r[i].segs))

(* a collect_register that put the register into self.reg only when every
   step had succeeded *)
collect_register_atomic(name, v, c) ==
    LET l == LoadIndex(name, c.offset)
        u == unify_reg(l.reg, 1)
        k == IF v.key2.has THEN NumXor(c.key.val, v.key2.val) ELSE c.key.val
        s == IF c.key.has THEN unscrample_reg(u.reg, k, 1)
             ELSE [ok |-> TRUE, reg |-> u.reg, exc |-> ""]
    IN  IF l.ok /\ u.ok /\ s.ok
        THEN [ok |-> TRUE, set |-> TRUE, reg |-> s.reg, exc |-> ""]
        ELSE [ok |-> FALSE, set |-> FALSE, reg |-> <<>>, exc |-> "Exception"]

(* collect_register after get_cipher: the register loaded at the offset,
   unified and, with a key, unscrambled; self.reg as the failure leaves it *)
collect_register(name, v, c) ==
    LET l == LoadIndex(name, c.offset)
        u == unify_reg(l.reg, 1)
        k == IF v.key2.has THEN NumXor(c.key.val, v.key2.val) ELSE c.key.val
        s == IF c.key.has THEN unscrample_reg(u.reg, k, 1)
             ELSE [ok |-> TRUE, reg |-> u.reg, exc |-> ""]
    IN  IF ~l.ok THEN [ok |-> FALSE, set |-> FALSE, reg |-> <<>>, exc |-> "zlib.error"]
        ELSE IF ~u.ok THEN [ok |-> FALSE, set |-> TRUE, reg |-> u.reg, exc |-> u.exc]
        ELSE [ok |-> s.ok, set |-> TRUE, reg |-> s.reg, exc |-> s.exc]

---------------------------------------------------------------------------
(* Extraction                                                              *)

(* a read of leg bytes, whatever the length of the prefix *)
ReadAt_leg(name, offset, leg, plen) ==
    LET bytes == FileBytes(name)
        start == IF IsSmall(offset) THEN Min(NatOf(offset), Len(bytes)) ELSE Len(bytes)
        stop == IF IsSmall(leg) THEN Min(start + NatOf(leg), Len(bytes)) ELSE Len(bytes)
    IN  SubSeq(bytes, start + 1, stop)

(* of.seek(offset); of.read(leg - plen): the bytes from the offset on, at
   most leg - plen of them, all of them for a negative count *)
ReadAt(name, offset, leg, plen) ==
    LET bytes == FileBytes(name)
        start == IF IsSmall(offset) THEN Min(NatOf(offset), Len(bytes)) ELSE Len(bytes)
        n == IF IsSmall(leg) THEN NatOf(leg) - plen ELSE Len(bytes)
        stop == IF n < 0 THEN Len(bytes) ELSE Min(start + n, Len(bytes))
    IN  SubSeq(bytes, start + 1, stop)

ReadRec(dep, name, offset, leg, plen) ==
    [dep |-> dep, file |-> name, what |-> "data", off |-> offset, leg |-> leg,
     plen |-> plen, got |-> ReadAt(name, offset, leg, plen)]

(* the parts put one after the other, with nothing between them *)
RECURSIVE Join_concat(_, _)
Join_concat(prefix, part) ==
    IF Len(part) = 0 THEN <<>>
    ELSE part[1] \o Join_concat(prefix, Tail(part))

(* prefix.join(part) *)
RECURSIVE Join(_, _)
Join(prefix, part) ==
    IF Len(part) = 0 THEN <<>>
    ELSE IF Len(part) = 1 THEN part[1]
    ELSE part[1] \o prefix \o Join(prefix, Tail(part))

(* extract_data for the depot dep (taken from the queue as first) and the
   tuples pos_stats: the depot it leaves in self.depot, its reads, the data *)
extract_data(first, dep, pos_stats, names) ==
    LET d == IF Suffix(dep.name) = ".rpi" THEN AsPath(WithSuffix(dep.name, ".rpa"))
             ELSE dep
    IN  IF d.name \notin names
        THEN [ok |-> FALSE, depot |-> d, reads |-> <<>>, data |-> <<>>,
              exc |-> "FileNotFoundError"]
        ELSE IF Len(pos_stats) = 0
        THEN [ok |-> FALSE, depot |-> d, reads |-> <<>>, data |-> <<>>,
              exc |-> "UnboundLocalError"]
        ELSE IF \E j \in 1..Len(pos_stats) : Len(pos_stats[j]) # 3
        THEN [ok |-> FALSE, depot |-> d, reads |-> <<>>, data |-> <<>>,
              exc |-> "ValueError"]
        ELSE IF Len(pos_stats) = 1
        THEN LET r == ReadRec(first, d.name, pos_stats[1][1], pos_stats[1][2],
                              Len(pos_stats[1][3]))
             IN  [ok |-> TRUE, depot |-> d, reads |-> <<r>>,
                  data |-> pos_stats[1][3] \o r.got, exc |-> ""]
        ELSE LET rs == [j \in 1..Len(pos_stats) |->
                           ReadRec(first, d.name, pos_stats[j][1], pos_stats[j][2], 0)]
             IN  [ok |-> TRUE, depot |-> d, reads |-> rs,
                  data |-> Join(pos_stats[Len(pos_stats)][3],
                                [j \in 1..Len(rs) |-> rs[j].got]),
                  exc |-> ""]

(* Path.is_dir() of the output path p: the output directory itself, or a
   directory made for a file written before *)
IsDir(wr, p) ==
    p = "" \/ \E i \in 1..Len(wr) : StartsWith(wr[i].path, p \o "/")

(* an unpack_depot that passes over an entry it cannot read or write and goes
   on with the next one *)
RECURSIVE unpack_depot_entrywise(_, _, _, _, _, _, _)
unpack_depot_entrywise(first, r, i, dep, names, rds, wr) ==
    IF i > Len(r) THEN [ok |-> TRUE, depot |-> dep, reads |-> rds, written |-> wr, exc |-> ""]
    ELSE LET e == extract_data(first, dep, r[i].segs, names)
         IN  IF ~e.ok \/ IsDir(wr, r[i].key.text)
             THEN unpack_depot_entrywise(first, r, i + 1, e.depot, names, rds, wr)
             ELSE unpack_depot_entrywise(first, r, i + 1, e.depot, names,
                                         rds \o e.reads,
                                         Append(wr, [dep |-> first, path |-> r[i].key.text,
                                                     data |-> e.data]))

(* the loop of RPAKit.unpack_depot from item i on: every file extracted and
   written; open(..., 'wb') on a directory raises IsADirectoryError *)
RECURSIVE unpack_depot(_, _, _, _, _, _, _)
unpack_depot(first, r, i, dep, names, rds, wr) ==
    IF i > Len(r) THEN [ok |-> TRUE, depot |-> dep, reads |-> rds, written |-> wr, exc |-> ""]
    ELSE LET e == extract_data(first, dep, r[i].segs, names)
         IN  IF ~e.ok
             THEN [ok |-> FALSE, depot |-> e.depot, reads |-> rds, written |-> wr,
                   exc |-> e.exc]
             ELSE IF IsDir(wr, r[i].key.text)
             THEN [ok |-> FALSE, depot |-> e.depot, reads |-> rds \o e.reads,
                   written |-> wr, exc |-> "IsADirectoryError"]
             ELSE unpack_depot(first, r, i + 1, e.depot, names, rds \o e.reads,
                               Append(wr, [dep |-> first, path |-> r[i].key.text,
                                           data |-> e.data]))

(* '0_' + os.urandom(2).hex() + '.BAD': the four digits are not modelled *)
BadName == "0_????.BAD"

(* RkDepotWork.check_out_pt: the name of a directory, or no name, is replaced *)
check_out_pt(wr, f_pt) == IF IsDir(wr, f_pt) THEN BadName ELSE f_pt

(* the loop of RkDepotWork.unpack_depot from item i on *)
RECURSIVE rk_unpack_depot(_, _, _, _, _, _, _)
rk_unpack_depot(first, r, i, dep, names, rds, wr) ==
    IF i > Len(r) THEN [ok |-> TRUE, depot |-> dep, reads |-> rds, written |-> wr, exc |-> ""]
    ELSE LET e == extract_data(first, dep, r[i].segs, names)
         IN  IF ~e.ok
             THEN [ok |-> FALSE, depot |-> e.depot, reads |-> rds, written |-> wr,
                   exc |-> e.exc]
             ELSE rk_unpack_depot(first, r, i + 1, e.depot, names, rds \o e.reads,
                                  Append(wr, [dep |-> first,
                                              path |-> check_out_pt(wr, r[i].key.text),
                                              data |-> e.data]))

---------------------------------------------------------------------------
(* rpakit.py: get_cipher as a call of its own                              *)

IndexRead(dep, name, offset) ==
    [dep |-> dep, file |-> name, what |-> "index", off |-> offset, leg |-> <<>>,
     plen |-> 0, got |-> <<>>]

(* get_cipher called on an object that holds a header and a version: the
   handlers of the try block raise a str, which is a TypeError; the
   AttributeError passes them *)
rk_cipher ==
    /\ pc = "specs" /\ prog = "rk"
    /\ \E c \in {rk_get_cipher(version, header)} :
           /\ version' = c.version
           /\ cipher' = IF c.ok THEN [offset |-> c.offset, key |-> c.key] ELSE cipher
           /\ err' = IF c.ok THEN err
                     ELSE IF c.exc = "AttributeError"
                          THEN Raised("AttributeError", "get_cipher")
                          ELSE Raised("TypeError", "get_cipher")
           /\ pc' = IF c.ok THEN "cipher" ELSE rk_control_uncaught
           /\ log' = Append(log, Step(IF c.ok THEN "cipher" ELSE "error", cur))
    /\ UNCHANGED <<prog, task, dir, dep_lst, count, depot, header, version_is,
                   rpaformats, rpaspecs, reg, dep_initstate, cur, reads, written>>

---------------------------------------------------------------------------
(* rpa_kit.py: the loop of cfg_control                                     *)

(* RPAKit.get_header_start: the first 12 bytes, decoded, or '' *)
kit_get_header_start(h) ==
    IF Decodable(PySlice(h, 0, 12)) THEN PySlice(h, 0, 12) ELSE ""

(* the keys of rpaformats, in the order of the dict, that are in the magic
   of header h *)
kit_keys_in(h) ==
    SelectSeq(Kit_tokens, LAMBDA tok : Contains(tok, kit_get_header_start(h)))

Kit_found == [h \in Headers |-> kit_keys_in(h)]

(* the for loop of guess_version over the keys found: self.version = val for
   each; the result is the key of the row self.version is at the end *)
kit_match(toks) == IF Len(toks) = 0 THEN Absent ELSE toks[Len(toks)]

(* a loop that caught the exception of a depot would go on with the deque *)
cfg_control_caught == "loop"

(* the exception no handler of cfg_control catches ends the run *)
cfg_control_uncaught == "crashed"

(* a loop that looks at the right end of the deque and leaves it there *)
kit_pop_peek ==
    /\ pc = "loop" /\ prog = "kit" /\ dep_lst # <<>>
    /\ depot' = dep_lst[Len(dep_lst)]
    /\ cur' = dep_lst[Len(dep_lst)].name
    /\ log' = Append(log, Step("pop", dep_lst[Len(dep_lst)].name))
    /\ pc' = "init"
    /\ UNCHANGED <<prog, task, dir, dep_lst, count, header, version, version_is,
                   rpaformats, rpaspecs, reg, dep_initstate, cipher, err, reads,
                   written>>

(* RKmain.cfg_control: the loop takes the right end of the deque *)
kit_pop ==
    /\ pc = "loop" /\ prog = "kit" /\ dep_lst # <<>>
    /\ depot' = dep_lst[Len(dep_lst)]
    /\ dep_lst' = SubSeq(dep_lst, 1, Len(dep_lst) - 1)
    /\ cur' = dep_lst[Len(dep_lst)].name
    /\ log' = Append(log, Step("pop", dep_lst[Len(dep_lst)].name))
    /\ pc' = "init"
    /\ UNCHANGED <<prog, task, dir, count, header, version, version_is, rpaformats,
                   rpaspecs, reg, dep_initstate, cipher, err, reads, written>>

(* a handler that reported the bogus archive and returned would leave
   init_depot without the register and cfg_control with the task to run *)
cfg_control_bogus_reported == "ready"

(* the handler of guess_version for ValueError and NotImplementedError
   calls inf(..., warn=True); inf takes no such keyword, the TypeError leaves
   guess_version before bogus is set, init_depot raises it again as
   Exception and cfg_control, which catches OSError, ends *)
cfg_control_bogus == cfg_control_uncaught

(* init_depot: collect_header and guess_version *)
kit_guess_version ==
    /\ pc = "init" /\ prog = "kit"
    /\ \E h \in {FileOf(depot.name).header} :
       \E row \in {kit_match(Kit_found[h])} :
       \E v \in {IF row # Absent THEN rpaformats[row]
                 ELSE IF Suffix(depot.name) = ".rpi" THEN Fmt("rpa1", Absent, Absent)
                 ELSE EmptyVersion} :
       \E bogus \in {v = EmptyVersion \/ InValues("zix12a", v) \/ InValues("zix12b", v)} :
           /\ header' = h
           /\ reads' = Append(reads, [dep |-> cur, file |-> depot.name, what |-> "header",
                                      off |-> <<>>, leg |-> <<>>, plen |-> 0, got |-> <<>>])
           /\ version' = v
           /\ version_is' = row
           /\ log' = Append(log, Step(IF bogus THEN "bogus" ELSE "guess", cur))
           /\ pc' = IF bogus THEN cfg_control_bogus ELSE "guessed"
           /\ err' = IF bogus THEN Raised("Exception", "guess_version") ELSE err
    /\ UNCHANGED <<prog, task, dir, dep_lst, count, depot, rpaformats, rpaspecs, reg,
                   dep_initstate, cipher, cur, written>>

(* RPAKit.get_version_specs: the row of rpaspecs joins self.version, which is
   a row of rpaformats whenever a key of that table matched *)
kit_get_version_specs ==
    /\ pc = "guessed" /\ prog = "kit"
    /\ LET v == IF version.rpaid \in DOMAIN rpaspecs
                THEN DictUpdate(version, rpaspecs[version.rpaid]) ELSE version
       IN  /\ version' = v
           /\ rpaformats' = IF version_is # Absent
                            THEN [rpaformats EXCEPT ![version_is] = v] ELSE rpaformats
    /\ log' = Append(log, Step("specs", cur))
    /\ pc' = "specs"
    /\ UNCHANGED <<prog, task, dir, dep_lst, count, depot, header, version_is, rpaspecs,
                   reg, dep_initstate, cipher, err, cur, reads, written>>

(* collect_register: get_cipher *)
kit_cipher ==
    /\ pc = "specs" /\ prog = "kit"
    /\ \E c \in {kit_get_cipher(version, header)} :
           /\ cipher' = IF c.ok THEN [offset |-> c.offset, key |-> c.key] ELSE cipher
           /\ err' = IF c.ok THEN err ELSE Raised("Exception", "get_cipher")
           /\ pc' = IF c.ok THEN "cipher" ELSE cfg_control_uncaught
           /\ log' = Append(log, Step(IF c.ok THEN "cipher" ELSE "error", cur))
    /\ UNCHANGED <<prog, task, dir, dep_lst, count, depot, header, version, version_is,
                   rpaformats, rpaspecs, reg, dep_initstate, cur, reads, written>>

(* collect_register behind get_cipher, then init_depot: the keys of the
   register decoded, fle_total counted; any failure is raised as Exception *)
kit_collect_register ==
    /\ pc = "cipher" /\ prog = "kit"
    /\ \E c \in {collect_register(depot.name, version, cipher)} :
       \E ok \in {c.ok /\ \A i \in 1..Len(c.reg) :
                              c.reg[i].key.kind = "bytes" => c.reg[i].key.utf8} :
           /\ reads' = Append(reads, IndexRead(cur, depot.name, cipher.offset))
           /\ reg' = IF ok THEN kit_keys(c.reg, 1, <<>>)
                     ELSE IF c.set THEN c.reg ELSE reg
           /\ count' = IF ok THEN [count EXCEPT !.fle_total = Len(kit_keys(c.reg, 1, <<>>))]
                       ELSE count
           /\ err' = IF ok THEN err ELSE Raised("Exception", "collect_register")
           /\ pc' = IF ok THEN "ready" ELSE cfg_control_uncaught
           /\ log' = Append(log, Step(IF ok THEN "decode" ELSE "error", cur))
    /\ UNCHANGED <<prog, task, dir, dep_lst, depot, header, version, version_is,
                   rpaformats, rpaspecs, dep_initstate, cipher, cur, written>>

(* cfg_control: the task on the depot init_depot read in; unpack_depot
   counts dep_done; test_depot takes self.depot.name, which an entry of
   os.scandir, a str, does not have *)
kit_task ==
    /\ pc = "ready" /\ prog = "kit"
    /\ IF task = "exp"
       THEN \E u \in {unpack_depot(cur, reg, 1, depot, dir, reads, written)} :
                /\ depot' = u.depot
                /\ reads' = u.reads
                /\ written' = u.written
                /\ err' = IF u.ok THEN err ELSE Raised(u.exc, "unpack_depot")
                /\ pc' = IF u.ok THEN "loop" ELSE cfg_control_uncaught
                /\ log' = Append(log, Step(IF u.ok THEN "task" ELSE "error", cur))
                /\ count' = IF u.ok THEN [count EXCEPT !.dep_done = @ + 1] ELSE count
       ELSE IF task = "tst" /\ depot.type = "str"
       THEN /\ pc' = cfg_control_uncaught
            /\ err' = Raised("AttributeError", "test_depot")
            /\ log' = Append(log, Step("error", cur))
            /\ UNCHANGED <<depot, reads, written, count>>
       ELSE /\ pc' = "loop"
            /\ log' = Append(log, Step("task", cur))
            /\ UNCHANGED <<depot, reads, written, err, count>>
    /\ UNCHANGED <<prog, task, dir, dep_lst, header, version, version_is, rpaformats,
                   rpaspecs, reg, dep_initstate, cipher, cur>>

(* cfg_control: the deque is empty, the loop ends *)
kit_exit ==
    /\ pc = "loop" /\ prog = "kit" /\ dep_lst = <<>>
    /\ pc' = "done"
    /\ UNCHANGED <<prog, task, dir, dep_lst, count, depot, header, version, version_is,
                   rpaformats, rpaspecs, reg, dep_initstate, cipher, err, cur,
                   log, reads, written>>

---------------------------------------------------------------------------

Next ==
    \/ rk_pathworker \/ rk_pop \/ rk_guess_version \/ rk_exit
    \/ kit_pathworker \/ kit_pop \/ kit_guess_version \/ kit_get_version_specs
    \/ kit_cipher \/ kit_collect_register \/ kit_task \/ kit_exit

Spec == Init /\ [][Next]_vars

---------------------------------------------------------------------------
(* RkDepotWork.get_cipher called on its inputs                             *)

(* self.version as guess_version and get_version_specs are written to leave
   it for the key tok of _rpaformats: the row of the format joined with the
   row of _rpaspecs for its rpaid *)
Rk_version(tok) ==
    IF Rk_rpaformats[tok].rpaid \in DOMAIN Rk_rpaspecs
    THEN DictUpdate(Rk_rpaformats[tok], Rk_rpaspecs[Rk_rpaformats[tok].rpaid])
    ELSE Rk_rpaformats[tok]

(* an object of RkDepotWork that holds the header of a file and a version *)
InitMethods ==
    /\ prog = "rk"
    /\ task = "test"
    /\ pc = "specs"
    /\ \E f \in Files :
           /\ dir = {f.name}
           /\ depot = AsPath(f.name)
           /\ header = f.header
           /\ cur = f.name
    /\ \E tok \in DOMAIN Rk_rpaformats : version = Rk_version(tok)
    /\ dep_lst = <<>>
    /\ count = [dep_found |-> 1, dep_done |-> 0, fle_total |-> 0, fid_found |-> 1]
    /\ version_is = Absent
    /\ rpaformats = Rk_rpaformats
    /\ rpaspecs = Rk_rpaspecs
    /\ reg = <<>>
    /\ dep_initstate = "True"
    /\ cipher = NoCipher
    /\ err = NoErr
    /\ log = <<>>
    /\ reads = <<>>
    /\ written = <<>>

NextMethods == rk_cipher

SpecMethods == InitMethods /\ [][NextMethods]_vars

---------------------------------------------------------------------------
(* The methods of RkDepotWork and RPAKit called on an object              *)

(* RkDepotWork.get_version_specs: the loop reads self.rpaspecs; the class has
   _rpaspecs only, and the handler is for KeyError *)
rk_get_version_specs ==
    /\ pc = "guessed" /\ prog = "rk"
    /\ err' = Raised("AttributeError", "get_version_specs")
    /\ pc' = rk_control_uncaught
    /\ log' = Append(log, Step("error", cur))
    /\ UNCHANGED <<prog, task, dir, dep_lst, count, depot, header, version, version_is,
                   rpaformats, rpaspecs, reg, dep_initstate, cipher, cur, reads,
                   written>>

(* RkDepotWork.collect_register: get_cipher, the register loaded into
   self.reg, then unify_reg, which reads self._reg: the object has reg only *)
rk_collect_register ==
    /\ pc = "specs" /\ prog = "rk"
    /\ \E c \in {rk_get_cipher(version, header)} :
       \E l \in {LoadIndex(depot.name, c.offset)} :
           /\ version' = c.version
           /\ cipher' = IF c.ok THEN [offset |-> c.offset, key |-> c.key] ELSE cipher
           /\ reads' = IF c.ok THEN Append(reads, IndexRead(cur, depot.name, c.offset))
                       ELSE reads
           /\ reg' = IF c.ok /\ l.ok THEN l.reg ELSE reg
           /\ err' = IF ~c.ok
                     THEN Raised(IF c.exc = "AttributeError" THEN "AttributeError"
                                 ELSE "TypeError", "get_cipher")
                     ELSE IF ~l.ok THEN Raised("zlib.error", "collect_register")
                     ELSE Raised("AttributeError", "unify_reg")
    /\ pc' = rk_control_uncaught
    /\ log' = Append(log, Step("error", cur))
    /\ UNCHANGED <<prog, task, dir, dep_lst, count, depot, header, version_is,
                   rpaformats, rpaspecs, dep_initstate, cur, written>>

(* RkDepotWork.unify_reg called on an object that holds a register *)
rk_unify_reg ==
    /\ pc = "loaded" /\ prog = "rk"
    /\ err' = Raised("AttributeError", "unify_reg")
    /\ pc' = rk_control_uncaught
    /\ log' = Append(log, Step("error", cur))
    /\ UNCHANGED <<prog, task, dir, dep_lst, count, depot, header, version, version_is,
                   rpaformats, rpaspecs, reg, dep_initstate, cipher, cur, reads,
                   written>>

(* RPAKit.unify_reg called on an object that holds a register *)
kit_unify_reg ==
    /\ pc = "loaded" /\ prog = "kit"
    /\ \E u \in {unify_reg(reg, 1)} :
           /\ reg' = u.reg
           /\ err' = IF u.ok THEN err ELSE Raised(u.exc, "unify_reg")
           /\ pc' = IF u.ok THEN "unified" ELSE cfg_control_uncaught
           /\ log' = Append(log, Step(IF u.ok THEN "unify" ELSE "error", cur))
    /\ UNCHANGED <<prog, task, dir, dep_lst, count, depot, header, version, version_is,
                   rpaformats, rpaspecs, dep_initstate, cipher, cur, reads, written>>

(* unscrample_reg(key) of either class called on an object that holds a
   register *)
call_unscrample_reg ==
    /\ pc = "unified" /\ cipher.key.has
    /\ \E u \in {unscrample_reg(reg, cipher.key.val, 1)} :
           /\ reg' = u.reg
           /\ err' = IF u.ok THEN err ELSE Raised(u.exc, "unscrample_reg")
           /\ pc' = IF u.ok THEN "unscrambled"
                    ELSE IF prog = "rk" THEN rk_control_uncaught
                    ELSE cfg_control_uncaught
           /\ log' = Append(log, Step(IF u.ok THEN "unscramble" ELSE "error", cur))
    /\ UNCHANGED <<prog, task, dir, dep_lst, count, depot, header, version, version_is,
                   rpaformats, rpaspecs, dep_initstate, cipher, cur, reads, written>>

(* str(_pt): a str stays, a bytes object gives its repr, b'...' (in which
   "#" stands for the escape of the byte) *)
rk_str(k) == IF k.kind = "str" THEN k ELSE StrKey("b'" \o k.text \o "'")

(* {str(_pt): _d for _pt, _d in self.reg.items()} from item i on *)
RECURSIVE rk_keys(_, _, _)
rk_keys(r, i, acc) ==
    IF i > Len(r) THEN acc
    ELSE rk_keys(r, i + 1, DictPut(acc, rk_str(r[i].key), r[i].segs))

(* RkDepotWork.init_depot behind collect_register: the keys of the register
   made strings, fle_total counted *)
rk_init_depot_keys ==
    /\ pc = "unscrambled" /\ prog = "rk"
    /\ \E r \in {rk_keys(reg, 1, <<>>)} :
           /\ reg' = r
           /\ count' = [count EXCEPT !.fle_total = Len(r)]
    /\ pc' = "ready"
    /\ log' = Append(log, Step("decode", cur))
    /\ UNCHANGED <<prog, task, dir, dep_lst, depot, header, version, version_is,
                   rpaformats, rpaspecs, dep_initstate, cipher, err, cur, reads,
                   written>>

(* RPAKit.init_depot behind collect_register: the keys of the register
   decoded, fle_total counted; UnicodeDecodeError is raised as Exception *)
kit_init_depot_keys ==
    /\ pc = "unscrambled" /\ prog = "kit"
    /\ \E ok \in {\A i \in 1..Len(reg) : reg[i].key.kind = "bytes" => reg[i].key.utf8} :
           /\ reg' = IF ok THEN kit_keys(reg, 1, <<>>) ELSE reg
           /\ count' = IF ok THEN [count EXCEPT !.fle_total = Len(kit_keys(reg, 1, <<>>))]
                       ELSE count
           /\ err' = IF ok THEN err ELSE Raised("Exception", "init_depot")
           /\ pc' = IF ok THEN "ready" ELSE cfg_control_uncaught
           /\ log' = Append(log, Step(IF ok THEN "decode" ELSE "error", cur))
    /\ UNCHANGED <<prog, task, dir, dep_lst, depot, header, version, version_is,
                   rpaformats, rpaspecs, dep_initstate, cipher, cur, reads, written>>

(* clear_rk_vars *)
clear_rk_vars ==
    /\ header' = NoHeader
    /\ version' = EmptyVersion
    /\ reg' = <<>>
    /\ dep_initstate' = "None"

(* rk_control behind init_depot: the task on the depot, dep_done counted,
   clear_rk_vars; list_depot_content reads self._reg and test_depot
   self._version, which the object does not have *)
rk_task ==
    /\ pc = "ready" /\ prog = "rk"
    /\ IF task \in {"extract", "simulate"}
       THEN \E u \in {rk_unpack_depot(cur, reg, 1, depot, dir, reads, written)} :
                /\ depot' = u.depot
                /\ reads' = u.reads
                /\ written' = u.written
                /\ err' = IF u.ok THEN err ELSE Raised(u.exc, "unpack_depot")
                /\ pc' = IF u.ok THEN "loop" ELSE rk_control_uncaught
                /\ log' = Append(log, Step(IF u.ok THEN "task" ELSE "error", cur))
                /\ count' = IF u.ok THEN [count EXCEPT !.dep_done = @ + 1, !.fid_found = 0]
                            ELSE count
                /\ IF u.ok THEN clear_rk_vars
                   ELSE UNCHANGED <<header, version, reg, dep_initstate>>
       ELSE /\ pc' = rk_control_uncaught
            /\ err' = Raised("AttributeError",
                             IF task = "listing" THEN "list_depot_content"
                             ELSE "test_depot")
            /\ log' = Append(log, Step("error", cur))
            /\ UNCHANGED <<depot, reads, written, count, header, version, reg,
                           dep_initstate>>
    /\ UNCHANGED <<prog, task, dir, dep_lst, version_is, rpaformats, rpaspecs,
                   cipher, cur>>

(* the points at which a method is called *)
DepotCalls == {"guessed", "specs", "loaded", "unified", "unscrambled", "ready"}

(* self.version as get_version_specs of rpa_kit.py leaves the row of a format *)
Kit_version(row) ==
    IF row.rpaid \in DOMAIN Kit_rpaspecs
    THEN DictUpdate(row, Kit_rpaspecs[row.rpaid]) ELSE row

(* the rows guess_version can give self.version: those of the format table
   and, in rpa_kit.py, the row made for the suffix .rpi *)
Rows(pg) ==
    IF pg = "rk" THEN {Rk_rpaformats[tok] : tok \in DOMAIN Rk_rpaformats}
    ELSE {Kit_rpaformats[tok] : tok \in DOMAIN Kit_rpaformats}
         \cup {Fmt("rpa1", Absent, Absent)}

Joined(pg, row) ==
    IF pg = "kit" THEN Kit_version(row)
    ELSE IF row.rpaid \in DOMAIN Rk_rpaspecs
    THEN DictUpdate(row, Rk_rpaspecs[row.rpaid]) ELSE row

(* self.version at the call: a row before get_version_specs, a row joined
   with its cipher row before collect_register; the later methods do not
   read it *)
VersionsAt(pg, p) ==
    IF p = "guessed" THEN Rows(pg)
    ELSE IF p = "specs" THEN {Joined(pg, row) : row \in Rows(pg)}
    ELSE {Joined(pg, Kit_rpaformats["RPA-3.0 "])}

(* the registers pickle.loads can deliver *)
RawRegisters == {f.index : f \in {g \in Files : g.index_at >= 0}}

(* the registers unify_reg leaves *)
UnifiedRegisters ==
    {unify_reg(r, 1).reg : r \in {q \in RawRegisters : unify_reg(q, 1).ok}}

(* the keys unscrample_reg is called with *)
Keys == {StdKey, <<15, 15>>}

(* the registers collect_register leaves for the indexes above *)
PlainRegisters ==
    {PlainStd, PlainBytes, PlainBadKey, PlainJoined, PlainNoName, PlainEdge,
     unify_reg(PlainParts, 1).reg, unify_reg(PlainLegacy, 1).reg}

(* self.reg at the call: what the depot before left (collect_register),
   the register in the state the method before leaves it (the others) *)
RegistersAt(pg, p) ==
    IF p \in {"guessed", "specs"} THEN {<<>>, unify_reg(PlainPair, 1).reg}
    ELSE IF p = "loaded" THEN RawRegisters
    ELSE IF p = "unified" THEN UnifiedRegisters
    ELSE IF p = "unscrambled" THEN PlainRegisters
    ELSE IF pg = "rk" THEN {rk_keys(r, 1, <<>>) : r \in PlainRegisters}
    ELSE {kit_keys(r, 1, <<>>) :
             r \in {q \in PlainRegisters :
                       \A i \in 1..Len(q) : q[i].key.utf8}}

(* the depot of the object: any file for the methods that read its header
   and index; an archive, an index file with its data file and one without
   for the task *)
DepotFiles(p) ==
    IF p \in {"guessed", "specs"} THEN Files
    ELSE IF p = "ready" THEN {FileOf("a.rpa"), FileOf("x.rpi"), FileOf("q.rpi")}
    ELSE {FileOf("a.rpa")}

(* an object of RkDepotWork or RPAKit on which a method is called *)
InitDepot ==
    /\ prog \in {"rk", "kit"}
    /\ task \in (IF prog = "rk" THEN Rk_tasks ELSE Kit_tasks)
    /\ pc \in DepotCalls
    /\ \E f \in DepotFiles(pc) :
           /\ cur = f.name
           /\ header = f.header
           /\ dir = {m \in FileNames : m = f.name \/ m = WithSuffix(f.name, ".rpa")}
           /\ depot \in (IF prog = "rk" THEN {AsPath(f.name)}
                         ELSE IF pc = "ready" THEN {AsStr(f.name), AsPath(f.name)}
                         ELSE {AsStr(f.name)})
    /\ version \in VersionsAt(prog, pc)
    /\ reg \in RegistersAt(prog, pc)
    /\ cipher \in (IF pc = "unified"
                   THEN {[offset |-> <<>>, key |-> SomeNum(k)] : k \in Keys}
                   ELSE {NoCipher})
    /\ count = [dep_found |-> 1, dep_done |-> 0, fle_total |-> Len(reg),
                fid_found |-> 1]
    /\ dep_lst = <<>>
    /\ version_is = Absent
    /\ rpaformats = IF prog = "rk" THEN Rk_rpaformats ELSE Kit_rpaformats
    /\ rpaspecs = IF prog = "rk" THEN Rk_rpaspecs ELSE Kit_rpaspecs
    /\ dep_initstate = IF prog = "rk" THEN "True" ELSE "None"
    /\ err = NoErr
    /\ log = <<>>
    /\ reads = <<>>
    /\ written = <<>>

NextDepot ==
    \/ rk_get_version_specs \/ rk_collect_register \/ rk_unify_reg
    \/ rk_init_depot_keys \/ rk_task
    \/ kit_get_version_specs \/ kit_cipher \/ kit_collect_register
    \/ kit_unify_reg \/ kit_init_depot_keys \/ kit_task
    \/ call_unscrample_reg

SpecDepot == InitDepot /\ [][NextDepot]_vars

---------------------------------------------------------------------------
(* Properties                                                              *)

(* the events the log holds for the depot d *)
Events(d) == {log[i].ev : i \in {j \in DOMAIN log : log[j].dep = d}}

(* the magic tokens of the catalog of the program; the key 'x' of rpakit.py
   is no token of a header but the heuristic for the legacy format *)
MagicTokens ==
    IF prog = "rk" THEN {Rk_tokens[i] : i \in 1..Len(Rk_tokens)} \ {"x"}
    ELSE {Kit_tokens[i] : i \in 1..Len(Kit_tokens)}

Catalog == IF prog = "rk" THEN Rk_rpaformats ELSE Kit_rpaformats

TokensIn(h) == {tok \in MagicTokens : Contains(tok, h)}

(* version resolution has acted on the depot taken from the queue and
   nothing else has since *)
AfterGuess ==
    \/ pc = "guessed"
    \/ pc \in {rk_control_uncaught, cfg_control_uncaught} /\ err.at = "guess_version"

(* version resolution called the depot d bogus *)
IsBogus(d) == "bogus" \in Events(d) \/ (prog = "rk" /\ dep_initstate = "False")

(* C1: a depot that version resolution called bogus gets no cipher
   resolution, no register decode and no task, in either program; no task
   runs on the register an earlier depot left. *)
C1_SkippedIsTerminal ==
    \A i \in DOMAIN log :
        log[i].ev = "bogus" =>
            /\ Events(log[i].dep) \cap {"specs", "cipher", "decode", "task"} = {}
            /\ \A j \in DOMAIN reads :
                  reads[j].dep = log[i].dep => reads[j].what = "header"
            /\ \A j \in DOMAIN written : written[j].dep # log[i].dep

(* C1, a depot called bogus while the register of the depot before it is
   still there *)
C1_Witness == IsBogus(cur) /\ reg # <<>> /\ "task" \in {log[i].ev : i \in DOMAIN log}

(* cipher resolution or register decoding failed *)
DecodeFailed == err.at \in {"get_cipher", "collect_register"}

(* C3, as the code has it: a failure of cipher resolution or register
   decoding ends the run where it happens: the exception leaves the loop,
   the depot gets no task and is not counted, and no step follows, whatever
   the queue still holds. *)
C3_FailureEndsRun ==
    DecodeFailed =>
        /\ pc = "crashed"
        /\ log[Len(log)] = Step("error", cur)
        /\ Events(cur) \cap {"decode", "task"} = {}
        /\ ~ENABLED Next

(* C3, a failure met while depots are still in the queue *)
C3_Witness == DecodeFailed /\ dep_lst # <<>>

(* C3 as claimed: the failure aborts that depot alone and the loop goes on
   with the queue; it never ends the run. *)
C3_RunContinues == DecodeFailed => pc = "loop"

(* C4: a header with two or more magic tokens of the catalog is called
   bogus: no format is picked for the depot, it is skipped, and the run does
   not fail. *)
C4_AmbiguousIsSkipped ==
    (AfterGuess /\ Cardinality(TokensIn(header)) >= 2) =>
        /\ IsBogus(cur)
        /\ pc # "crashed"

(* the descriptor of a catalog row: rpaid, alias, desc *)
SameFormat(v, row) == v.rpaid = row.rpaid /\ v.alias = row.alias /\ v.desc = row.desc

(* C5: on a header with exactly one magic token, version resolution ends
   with the format of that token, wherever the depot stands in the queue. *)
C5_SingleTokenResolves ==
    (AfterGuess /\ Cardinality(TokensIn(header)) = 1) =>
        \A tok \in TokensIn(header) : SameFormat(version, Catalog[tok])

(* C6: a depot whose suffix is not .rpi and whose header holds no magic
   token is called bogus; it is never taken as resolved with an empty
   format. *)
C6_NoFormatIsBogus ==
    (AfterGuess /\ Suffix(cur) # ".rpi" /\ TokensIn(header) = {}) =>
        /\ IsBogus(cur)
        /\ dep_initstate # "True"

(* C7: a depot with the suffix .rpi whose header holds no magic token is
   resolved to the legacy format rpa1 and not called bogus. *)
C7_LegacyBySuffix ==
    (AfterGuess /\ Suffix(cur) = ".rpi" /\ TokensIn(header) = {}) =>
        /\ pc = "guessed"
        /\ version.rpaid = "rpa1"
        /\ ~IsBogus(cur)

(* the index files of the directory whose data file lies next to them *)
Paired == {n \in dir : Suffix(n) = ".rpi" /\ WithSuffix(n, ".rpa") \in dir}

(* C8: of x.rpi and x.rpa the queue keeps x.rpi alone and dep_found counts
   the pair once; x.rpa is never taken as a depot; header and register of
   the pair are read from x.rpi and its data from x.rpa. *)
C8_PairProcessedOnce ==
    pc # "start" =>
        /\ count.dep_found = Cardinality(dir) - Cardinality(Paired)
        /\ \A n \in Paired :
              /\ \A i \in DOMAIN dep_lst : dep_lst[i].name # WithSuffix(n, ".rpa")
              /\ Events(WithSuffix(n, ".rpa")) = {}
              /\ \A i \in DOMAIN reads :
                    reads[i].dep = n =>
                        reads[i].file = IF reads[i].what = "data"
                                        THEN WithSuffix(n, ".rpa") ELSE n

(* the windows of the format rpa3 *)
Rpa3_offset == Rk_rpaspecs["rpa3"].offset
Rpa3_key == Rk_rpaspecs["rpa3"].key

(* C9: get_cipher on a version of the format rpa3 and a header whose windows
   hold hexadecimal text: a key equal to key_org is returned as parsed and
   the version stays; any other key is parsed again from the reversed window,
   returned, and the version gets the rpaid rpa3rk. *)
C9_ReversedKeyRelabel ==
    [][(/\ rk_cipher
        /\ version.rpaid = "rpa3"
        /\ Parsed[header, Rpa3_offset].ok
        /\ Parsed[header, Rpa3_key].ok
        /\ ParsedReverse[header, Rpa3_key].ok)
       => IF Parsed[header, Rpa3_key].val = NumOfNat(key_org)
          THEN /\ cipher'.key = SomeNum(Parsed[header, Rpa3_key].val)
               /\ version' = version
          ELSE /\ cipher'.key = SomeNum(ParsedReverse[header, Rpa3_key].val)
               /\ version'.rpaid = "rpa3rk"]_vars

(* the tasks that extract *)
Extracting == task \in {"extract", "simulate", "exp"}

(* the run has ended, in the last statement of the loop or in an exception *)
RunEnded == pc \in {"done", "crashed"}

(* the reads of kind what made for the depot d *)
ReadsOf(d, what) ==
    SelectSeq(reads, LAMBDA r : r.dep = d /\ r.what = what)

(* C10: for b.rpa, the archive of format RPA-3.0 with the offset window 18
   and the key window FF, the register is read at 0x18 and unscrambled with
   0xFF: it holds a/b.txt with one triple (0, 5, b''), and extraction reads
   5 bytes at offset 0; stated of the run on a directory that holds b.rpa
   alone, when it has ended. *)
C10_StandardEndToEnd ==
    (RunEnded /\ dir = {"b.rpa"}) =>
        /\ Len(ReadsOf("b.rpa", "index")) = 1
        /\ ReadsOf("b.rpa", "index")[1].off = NumOfNat(24)
        /\ reg = << Item(StrKey("a/b.txt"), << <<NumOfNat(0), NumOfNat(5), <<>> >> >>) >>
        /\ Extracting =>
              /\ Len(ReadsOf("b.rpa", "data")) = 1
              /\ ReadsOf("b.rpa", "data")[1].off = NumOfNat(0)
              /\ Len(ReadsOf("b.rpa", "data")[1].got) = 5

(* C11: get_cipher on a version of the oldest format (rpaid rpa1, the offset
   0 and the key None in place of windows) succeeds with the offset 0 and no
   key, whatever the header holds: neither window is cut from the header or
   parsed. *)
C11_LegacyCipher ==
    [][(/\ rk_cipher
        /\ version.rpaid = "rpa1"
        /\ version.offset = WinZero
        /\ version.key = WinNone)
       => /\ pc' = "cipher"
          /\ cipher' = [offset |-> <<>>, key |-> NoNum]
          /\ err' = NoErr]_vars


(* collect_register was called on the depot and has returned or raised *)
CollectDone ==
    /\ pc \in {"ready", "loop", "crashed"}
    /\ \/ Len(ReadsOf(cur, "index")) > 0
       \/ err.at = "get_cipher"

(* archives of the formats with a cipher row: the format, the position of
   the index, and the register the archiver wrote into the index *)
Archives ==
    { [name |-> "l.rpa", rpaid |-> "alt1", at |-> 34, plain |-> PlainStd],
      [name |-> "a.rpa", rpaid |-> "rpa3", at |-> 34, plain |-> PlainStd],
      [name |-> "i.rpa", rpaid |-> "rpa32", at |-> 36, plain |-> PlainStd],
      [name |-> "r.rpa", rpaid |-> "rpa2", at |-> 25,
       plain |-> << Item(StrKey("a/b.txt"), << <<NumOfNat(64), NumOfNat(5), <<>> >> >>) >>],
      [name |-> "x.rpi", rpaid |-> "rpa1", at |-> 0,
       plain |-> << Item(StrKey("a/b.txt"), << <<NumOfNat(64), NumOfNat(5), <<>> >> >>) >>] }

(* C12: collect_register on an archive of the format alt1 reads the index at
   the offset of header[17:33] and unscrambles it with the key of
   header[8:16] XOR 0xDABE8DF0 (l.rpa: 98FCCFB2 XOR DABE8DF0 = 42424242, the
   key its index was written with); for a format without key2 the parsed key
   is applied as it is, and for rpa1 and rpa2 the offsets and lengths of the
   index stay: in every case the register is the one the archiver wrote. *)
C12_SecondaryKey ==
    \A a \in Archives :
        (cur = a.name /\ version.rpaid = a.rpaid /\ version.offset # NoWin
            /\ CollectDone)
        => /\ Len(ReadsOf(cur, "index")) = 1
           /\ ReadsOf(cur, "index")[1].off = NumOfNat(a.at)
           /\ reg = a.plain

(* every list of the register r holds a tuple, and only pairs and triples *)
PairsAndTriples(r) ==
    \A i \in 1..Len(r) :
        /\ Len(r[i].segs) > 0
        /\ \A j \in 1..Len(r[i].segs) : Len(r[i].segs[j]) \in {2, 3}

(* the register r with the empty prefix put behind every pair *)
Normal(r) ==
    [i \in 1..Len(r) |->
        Item(r[i].key,
             [j \in 1..Len(r[i].segs) |->
                 IF Len(r[i].segs[j]) = 2 THEN r[i].segs[j] \o << <<>> >>
                 ELSE r[i].segs[j]])]

(* C13: unify_reg on a register whose lists hold pairs and triples, also
   both in one list, returns with every pair made a triple with the empty
   prefix and every triple as it was: no list holds a pair or a tuple of
   four afterwards. *)
C13_UnifyNormalizes ==
    [][((rk_unify_reg \/ kit_unify_reg) /\ PairsAndTriples(reg))
       => /\ pc' = "unified"
          /\ reg' = Normal(reg)
          /\ \A i \in 1..Len(reg') : \A j \in 1..Len(reg'[i].segs) :
                Len(reg'[i].segs[j]) = 3]_vars

(* every tuple of the register r is a triple *)
Triples(r) ==
    \A i \in 1..Len(r) : \A j \in 1..Len(r[i].segs) : Len(r[i].segs[j]) = 3

(* C14: unscrample_reg with the key k on a register of triples replaces, in
   every tuple of every path, the offset by offset XOR k and the length by
   length XOR k, and leaves the prefixes, the paths, and the number and order
   of the tuples; applied once more with k to what it left, it gives the
   register it started from. *)
C14_UnscrambleXor ==
    [][(call_unscrample_reg /\ Triples(reg))
       => /\ pc' = "unscrambled"
          /\ Len(reg') = Len(reg)
          /\ \A i \in 1..Len(reg) :
                /\ reg'[i].key = reg[i].key
                /\ Len(reg'[i].segs) = Len(reg[i].segs)
                /\ \A j \in 1..Len(reg[i].segs) :
                      /\ reg'[i].segs[j][1] = NumXor(reg[i].segs[j][1], cipher.key.val)
                      /\ reg'[i].segs[j][2] = NumXor(reg[i].segs[j][2], cipher.key.val)
                      /\ reg'[i].segs[j][3] = reg[i].segs[j][3]
          /\ unscrample_reg(reg', cipher.key.val, 1).ok
          /\ unscrample_reg(reg', cipher.key.val, 1).reg = reg]_vars

(* C14, unscrample_reg has acted, with the key of the archiver, on an index
   of two files in parts whose tuples hold prefixes *)
C14_Witness ==
    /\ pc = "unscrambled"
    /\ "unscramble" \in Events(cur)
    /\ cipher.key = SomeNum(StdKey)
    /\ reg = PlainJoined

(* every bytes key of the register r is UTF-8 text *)
KeysDecodable(r) ==
    \A i \in 1..Len(r) : r[i].key.kind = "bytes" => r[i].key.utf8

(* C15: the step of init_depot that makes the keys of the decoded register
   strings keeps a key that is a str and replaces a bytes key by the text it
   encodes in UTF-8, never by its repr b'...'; the lists stay with their
   keys; a bytes key that is no UTF-8 text makes the step fail, and the depot
   is not ready. *)
C15_KeysArePathStrings ==
    [][(rk_init_depot_keys \/ kit_init_depot_keys)
       => IF KeysDecodable(reg)
          THEN /\ pc' = "ready"
               /\ Len(reg') = Len(reg)
               /\ \A i \in 1..Len(reg) :
                     /\ reg'[i].key.kind = "str"
                     /\ reg'[i].key.text = reg[i].key.text
                     /\ reg'[i].segs = reg[i].segs
          ELSE pc' # "ready"]_vars

(* a step in which the decoding of the register of a depot (get_cipher,
   collect_register, the keys) fails *)
DecodeFails ==
    /\ rk_collect_register \/ kit_cipher \/ kit_collect_register
    /\ pc' = "crashed"

(* C16, as the code has it: a failure before the index is loaded (the
   cipher, decompression, deserialization) leaves self.reg as it was before;
   a failure of a later step (unify_reg, unscrample_reg, the keys) leaves in
   self.reg the index just loaded, with its keys as loaded and its lists as
   far as the steps got; the exception ends the run. *)
C16_FailedDecodeKeepsLoaded ==
    [][DecodeFails
       => IF err'.at = "get_cipher" \/ ~LoadIndex(depot.name, cipher'.offset).ok
          THEN reg' = reg
          ELSE /\ Len(reg') = Len(FileOf(depot.name).index)
               /\ \A i \in 1..Len(reg') :
                     /\ reg'[i].key = FileOf(depot.name).index[i].key
                     /\ Len(reg'[i].segs) = Len(FileOf(depot.name).index[i].segs)]_vars

(* C16, the decoding of w.rpa has failed in unscrample_reg: the first list
   of self.reg is unscrambled, the second holds a tuple of four and the third
   a pair *)
C16_Witness ==
    /\ prog = "kit" /\ cur = "w.rpa" /\ pc = "crashed"
    /\ err.at = "collect_register"
    /\ Len(reg) = 3
    /\ reg[1].segs = PlainMixed[1].segs
    /\ Len(reg[2].segs[2]) = 4
    /\ Len(reg[3].segs[2]) = 2

(* C16 as claimed: whichever step of the decoding fails, self.reg is what it
   was before the decoding; it never holds the index raw or in part
   processed. *)
C16_AllOrNothing == [][DecodeFails => reg' = reg]_vars

(* a step in which unpack_depot runs on the register of the depot *)
Unpacks == (rk_task \/ kit_task) /\ Extracting

(* the file the data of the depot is read from *)
DataFile == IF Suffix(cur) = ".rpi" THEN WithSuffix(cur, ".rpa") ELSE cur

(* C17: for an entry of the register with one tuple (offset, length, prefix)
   whose length is at least the length of the prefix, read from a data file
   that holds offset + length - len(prefix) bytes or more, the data
   unpack_depot gets from extract_data and writes is the prefix followed by
   the length - len(prefix) bytes at the offset: length bytes in all. *)
C17_SingleSegment ==
    [][Unpacks
       => \A i \in 1..(Len(written') - Len(written)) :
             LET segs == reg[i].segs
                 o == NatOf(segs[1][1])
                 l == NatOf(segs[1][2])
                 p == segs[1][3]
             IN  (/\ Len(segs) = 1
                  /\ IsSmall(segs[1][1]) /\ IsSmall(segs[1][2])
                  /\ l >= Len(p)
                  /\ o + l - Len(p) <= Len(FileBytes(DataFile)))
                 => /\ written'[Len(written) + i].data
                          = p \o [m \in 1..(l - Len(p)) |-> FileBytes(DataFile)[o + m]]
                    /\ Len(written'[Len(written) + i].data) = l]_vars

(* C17, unpack_depot has written c.bin, whose tuple is (69, 6, b"AB"): the
   prefix and the four bytes at 69 *)
C17_Witness ==
    /\ "task" \in Events(cur)
    /\ \E i \in 1..Len(written) :
          /\ written[i].path = "c.bin"
          /\ written[i].data = <<65, 66, 69, 70, 71, 72>>

(* the number of tuples of the first i entries of the register r *)
RECURSIVE Legs(_, _)
Legs(r, i) == IF i = 0 THEN 0 ELSE Len(r[i].segs) + Legs(r, i - 1)

(* the l bytes of the data file that follow the offset o *)
Piece(o, l) == [m \in 1..l |-> FileBytes(DataFile)[o + m]]

(* the pieces of the tuples 1..j of segs, sep between one and the next *)
RECURSIVE Glued(_, _, _)
Glued(segs, sep, j) ==
    IF j = 1 THEN Piece(NatOf(segs[1][1]), NatOf(segs[1][2]))
    ELSE Glued(segs, sep, j - 1) \o sep \o Piece(NatOf(segs[j][1]), NatOf(segs[j][2]))

(* every tuple of segs lies within the data file *)
WithinFile(segs) ==
    \A j \in 1..Len(segs) :
        /\ IsSmall(segs[j][1]) /\ IsSmall(segs[j][2])
        /\ NatOf(segs[j][1]) + NatOf(segs[j][2]) <= Len(FileBytes(DataFile))

(* C18: for an entry of the register with two or more tuples that lie within
   the data file, extract_data makes one read for every tuple, in the order
   of the register, each at the offset of its tuple and of its full length,
   and the data it returns is these reads in that order with the prefix as
   separator between one read and the next. The separator is one value for
   the whole entry, the prefix of its last tuple (for [(0,4,b""),(4,4,b"--")]
   the data is read(0,4) + b"--" + read(4,4)). *)
C18_MultiSegment ==
    [][Unpacks
       => \A i \in 1..(Len(written') - Len(written)) :
             LET segs == reg[i].segs
                 base == Len(reads) + Legs(reg, i - 1)
             IN  (Len(segs) >= 2 /\ WithinFile(segs))
                 => /\ \A j \in 1..Len(segs) :
                          /\ reads'[base + j].what = "data"
                          /\ reads'[base + j].file = DataFile
                          /\ reads'[base + j].off = segs[j][1]
                          /\ reads'[base + j].got
                                = Piece(NatOf(segs[j][1]), NatOf(segs[j][2]))
                          /\ Len(reads'[base + j].got) = NatOf(segs[j][2])
                    /\ written'[Len(written) + i].data
                          = Glued(segs, segs[Len(segs)][3], Len(segs))]_vars

(* C18, unpack_depot has written j.bin, whose tuples are (0, 4, b"") and
   (4, 4, b"--"), and k.bin, whose three tuples have the prefixes b"A", b"B"
   and b"C" *)
C18_Witness ==
    /\ "task" \in Events(cur)
    /\ \E i, k \in 1..Len(written) :
          /\ written[i].path = "j.bin"
          /\ written[i].data = <<0, 1, 2, 3, 45, 45, 4, 5, 6, 7>>
          /\ written[k].path = "k.bin"
          /\ written[k].data = <<0, 1, 67, 8, 9, 67, 16, 17>>

(* the exceptions of extraction that are an OSError *)
OSErrors == {"FileNotFoundError", "IsADirectoryError"}

(* the entry i of the register has tuples extract_data can take apart *)
WellFormed(i) ==
    /\ Len(reg[i].segs) >= 1
    /\ \A j \in 1..Len(reg[i].segs) : Len(reg[i].segs[j]) = 3

(* the name of the entry i is no name, or the name of a directory made for
   an entry before it *)
NamesDir(i) ==
    \/ reg[i].key.text = ""
    \/ \E j \in 1..(i - 1) : StartsWith(reg[j].key.text, reg[i].key.text \o "/")
    \/ \E j \in 1..Len(written) : StartsWith(written[j].path, reg[i].key.text \o "/")

(* the entry i cannot be read (the data file is not there) or, in
   rpa_kit.py, cannot be written (its name names a directory) *)
BadEntry(i) ==
    \/ DataFile \notin dir
    \/ prog = "kit" /\ WellFormed(i) /\ NamesDir(i)

(* the entry k is the first one of the register that meets an I/O error *)
FirstBad(k) ==
    /\ BadEntry(k)
    /\ \A i \in 1..(k - 1) : WellFormed(i) /\ ~BadEntry(i)

(* C19, as the claim states it: when an entry of the register of a ready
   depot meets an I/O error during extraction, every other entry of the depot
   is still extracted and written, the depot is counted as done, and the run
   goes on. *)
C19_BadEntryKeepsDepot ==
    [][Unpacks
       => \A k \in 1..Len(reg) :
             FirstBad(k)
             => /\ \A i \in (1..Len(reg)) \ {k} :
                      \E m \in (Len(written) + 1)..Len(written') :
                          written'[m].path = reg[i].key.text
                /\ count'.dep_done = count.dep_done + 1
                /\ pc' # "crashed"]_vars

(* C19, amended: unpack_depot catches TypeError only. The first entry that
   meets an I/O error raises it out of unpack_depot and out of the loop: the
   run ends there, the entries before it stay written, the entry and those
   behind it are not written, and the depot is not counted as done. In
   rpakit.py a name that is empty or names a directory is no error:
   check_out_pt writes the entry under a placeholder name, the other entries
   are extracted and the depot is counted. *)
C19_IOErrorEndsRun ==
    [][Unpacks
       => /\ \A k \in 1..Len(reg) :
                FirstBad(k)
                => /\ err'.exc \in OSErrors /\ err'.at = "unpack_depot"
                   /\ pc' = "crashed"
                   /\ count' = count
                   /\ Len(written') = Len(written) + k - 1
                   /\ \A i \in 1..(k - 1) :
                         written'[Len(written) + i].path = reg[i].key.text
          /\ (/\ prog = "rk" /\ DataFile \in dir
               /\ \A i \in 1..Len(reg) : WellFormed(i))
             => /\ err' = err
                /\ count'.dep_done = count.dep_done + 1
                /\ Len(written') = Len(written) + Len(reg)
                /\ \A i \in 1..Len(reg) :
                      written'[Len(written) + i].path
                         = IF NamesDir(i) THEN BadName ELSE reg[i].key.text]_vars

(* C19, unpack_depot of rpa_kit.py has written a/b.txt and met the entry
   with the empty name: IsADirectoryError has ended the run, c.bin is not
   written and no depot is counted *)
C19_Witness ==
    /\ prog = "kit" /\ pc = "crashed"
    /\ err = Raised("IsADirectoryError", "unpack_depot")
    /\ Len(written) = 1 /\ written[1].path = "a/b.txt"
    /\ count.dep_done = 0

(* the rpaids init_depot takes on to cipher resolution: those of the format
   table of the program that guess_version does not refuse *)
SupportedIds ==
    {Catalog[tok].rpaid : tok \in DOMAIN Catalog} \ {"zix12a", "zix12b"}

(* C20: every rpaid of the format table that is not refused as unsupported,
   rpa3rk among them, is a key of the cipher table, and a call of
   get_version_specs on a version with such an rpaid does not fail and
   leaves the version with an offset window and a key entry. *)
C20_EveryFormatHasSpecs ==
    [][/\ \A id \in SupportedIds : id \in DOMAIN rpaspecs
       /\ ((rk_get_version_specs \/ kit_get_version_specs)
            /\ version.rpaid \in SupportedIds)
          => /\ pc' # "crashed"
             /\ version'.offset # NoWin
             /\ version'.key # NoWin]_vars

(* C21: the format table and the cipher table are never changed: in every
   state of a run every row of both tables is the row the class defines,
   whatever depots the loop has processed. *)
C21_TablesImmutable ==
    /\ rpaformats = (IF prog = "rk" THEN Rk_rpaformats ELSE Kit_rpaformats)
    /\ rpaspecs = (IF prog = "rk" THEN Rk_rpaspecs ELSE Kit_rpaspecs)

(* the iterations of the loop so far: the depots it has taken *)
Taken == SelectSeq(log, LAMBDA e : e.ev = "pop")

(* the loop takes a depot *)
Pops == rk_pop \/ kit_pop

(* C22, as the claim states it: a run whose loop has started ends with the
   queue empty, after one iteration for every depot of the queue, each of
   them completed or skipped. *)
C22_LoopRunsEveryDepot ==
    (RunEnded /\ Len(Taken) >= 1) =>
        /\ dep_lst = <<>>
        /\ \A i \in DOMAIN Taken :
              "task" \in Events(Taken[i].dep) \/ "bogus" \in Events(Taken[i].dep)

(* what is left of a run: the statements of the iteration at hand that are
   still to come, and the seven statements of every depot of the queue *)
Remaining ==
    7 * Len(dep_lst)
    + (CASE pc = "start"   -> 7 * (MaxDepots + 1)
         [] pc = "init"    -> 6
         [] pc = "guessed" -> 5
         [] pc = "specs"   -> 4
         [] pc = "cipher"  -> 3
         [] pc = "ready"   -> 2
         [] pc = "loop"    -> 1
         [] OTHER          -> 0)

(* C22, amended: every iteration takes exactly one depot off the right end
   of the queue, a depot not taken before, and only after the task of the
   depot before it is done; no other statement changes the queue, so the
   iterations and the depots left in the queue always add up to the length
   the queue had when the loop started. The loop ends, since every statement
   lessens what is left of the run: either with the queue empty, or in an
   exception raised by the iteration at hand, which ends the run with the
   rest of the queue never taken. *)
C22_LoopTakesEachDepotOnce ==
    [][/\ pc # "crashed" /\ pc # "done"
       /\ Pops => /\ dep_lst = Append(dep_lst', depot')
                   /\ \A i \in DOMAIN Taken : Taken[i].dep # cur'
                   /\ Len(Taken) >= 1 => "task" \in Events(cur)
       /\ (~Pops /\ pc # "start") => dep_lst' = dep_lst
       /\ pc # "start" => Len(Taken') + Len(dep_lst') = Len(Taken) + Len(dep_lst)
       /\ pc' = "done" => dep_lst' = <<>>
       /\ Remaining' < Remaining]_vars

(* C22, the loop has ended after two iterations, each depot taken once and
   its task done *)
C22_Witness ==
    /\ pc = "done" /\ dep_lst = <<>>
    /\ Len(Taken) = 2 /\ Taken[1].dep # Taken[2].dep
    /\ \A i \in DOMAIN Taken : "task" \in Events(Taken[i].dep)

(* the depots the loop has taken whose task has returned *)
Completed == {Taken[i].dep : i \in {j \in DOMAIN Taken : "task" \in Events(Taken[j].dep)}}

(* the depots the loop has taken that version resolution called bogus *)
Skipped == {Taken[i].dep : i \in {j \in DOMAIN Taken : "bogus" \in Events(Taken[j].dep)}}

(* the loop is about to make its first iteration *)
LoopStarts == pc = "loop" /\ Taken = <<>>

(* C23, as the claim states it: dep_found is the length of the queue when
   the loop starts, dep_done lies between 0 and dep_found, dep_done is the
   number of depots whose task has completed, whatever the task, and at the
   end of the loop it is dep_found less the depots skipped. *)
C23_CountersConsistent ==
    /\ LoopStarts => count.dep_found = Len(dep_lst)
    /\ 0 <= count.dep_done /\ count.dep_done <= count.dep_found
    /\ count.dep_done = Cardinality(Completed)
    /\ pc = "done" => count.dep_done = count.dep_found - Cardinality(Skipped)

(* C23, amended: dep_found is the length of the queue when the loop starts
   and dep_done lies between 0 and dep_found. In rpakit.py rk_control adds
   one to dep_done for every depot whose task has returned; in rpa_kit.py
   unpack_depot alone adds to it, so dep_done is the number of depots
   unpacked and stays 0 for the tasks lst and tst. A depot called bogus is
   never counted. When the loop ends with the queue empty, dep_done is
   dep_found for the tasks that count and 0 for lst and tst. *)
C23_DepDoneCountsUnpacked ==
    LET counting == prog = "rk" \/ task = "exp"
    IN  /\ LoopStarts => count.dep_found = Len(dep_lst)
        /\ 0 <= count.dep_done /\ count.dep_done <= count.dep_found
        /\ count.dep_done = IF counting THEN Cardinality(Completed) ELSE 0
        /\ Completed \cap Skipped = {}
        /\ pc = "done" => count.dep_done = IF counting THEN count.dep_found ELSE 0

(* C23, the loop of rpa_kit.py has unpacked two depots and ended: both are
   counted *)
C23_Witness ==
    /\ pc = "done" /\ prog = "kit" /\ task = "exp"
    /\ Cardinality(Completed) = 2
    /\ count.dep_done = 2 /\ count.dep_found = 2

=============================================================================
